---- MODULE Spec2Model ----
(***************************************************************************)
(* A model of the RootOps decision engine (src/services/                   *)
(* intelligence_engine.py), its memory store (src/models/db_models.py)     *)
(* and the background scheduler (src/services/auto_poller.py).             *)
(*                                                                         *)
(* Numbers.  Python floats are modelled as exact fixed-point integers:     *)
(*   probabilities, confidences, health scores : 1/10000  (One = 1.0)      *)
(*   commit risk scores                        : 1/100    (1000 = 10.0)    *)
(*   error rates                               : 1/1000   (as rounded by   *)
(*                                               LogAnalyzer.analyze_logs) *)
(*   degradation percent                       : 1/1000 of a percent       *)
(* Time.  Rows of a table are kept in insertion order, which is the order  *)
(* of their timestamps; every row is inside the 90 day / 24 hour windows.  *)
(***************************************************************************)
EXTENDS Integers, Sequences, FiniteSets, TLC

VARIABLES
    commits,      \* table commit_memory      (CommitMemory rows)
    deployments,  \* table deployment_events  (DeploymentEvent rows)
    incidents,    \* table incident_memory    (IncidentMemory rows)
    patterns,     \* table pattern_memory     (PatternMemory rows)
    last,         \* what the last call gave its caller
    running,      \* AutoPoller.running
    startPc,      \* position of the AutoPoller.start() coroutine
    workerPc,     \* position of each worker loop
    stopCalled,   \* AutoPoller.stop() has been called
    ticks,        \* loop iterations each worker has begun
    cancelReq,    \* tasks with a Task.cancel() request not yet delivered
    log_backend,  \* BackendDetector.log_backend: "none", "loki" or "file"
    remote,       \* the repository's commits on GitHub, newest first
    last_commit_sha, \* AutoPoller.last_commit_sha, <<>> for None
    fetched,      \* `commits` of the commit poller's current tick
    cursor,       \* position of its for loop in `commits`, 0 between ticks
    submitted,    \* the shas given to _analyze_commit, in call order
    sessions      \* the record_incident calls in flight, each on its own session

vars == <<commits, deployments, incidents, patterns, last,
          running, startPc, workerPc, stopCalled, ticks, cancelReq, log_backend,
          remote, last_commit_sha, fetched, cursor, submitted, sessions>>

storeVars  == <<commits, deployments, incidents, patterns>>
feedVars   == <<remote, last_commit_sha, fetched, cursor, submitted>>
raceVars   == <<sessions>>
\* everything outside the store and `last`
pollerVars == <<running, startPc, workerPc, stopCalled, ticks, cancelReq, log_backend,
                feedVars, raceVars>>

----------------------------------------------------------------------------
(* Bounds of the model *)

MaxCommits   == 2   \* rows of commit_memory explored by Spec
MaxIncidents == 2   \* rows of incident_memory explored by Spec
MaxLearn     == 6   \* rows of incident_memory explored by SpecLearn
MaxTicks     == 3   \* ticks a worker loop is followed for

----------------------------------------------------------------------------
(* Fixed-point units and small helpers *)

One == 10000

None == "None"

Min(a, b) == IF a < b THEN a ELSE b
Max(a, b) == IF a > b THEN a ELSE b

\* dict.get(key, default)
Get(d, k, default) == IF k \in DOMAIN d THEN d[k] ELSE default

Range(s) == {s[i] : i \in 1..Len(s)}

----------------------------------------------------------------------------
(* Identifiers.  A sha is <<first 8 characters, rest>>; a deployment id is  *)
(* <<kind, name>>; an incident id is <<kind, a, b>>.                        *)

\* deployment_id or f"deploy-{commit_sha[:8]}"
DefaultDeploymentId(commit_sha) == <<"deploy", commit_sha[1]>>

\* f"auto-{deployment.deployment_id}"
AutoIncidentId(deployment_id) == <<"auto", deployment_id[1], deployment_id[2]>>

----------------------------------------------------------------------------
(* Memory store: unique columns and the commit of a session's pending rows *)

\* A commit of the session fails on a store error, or with an IntegrityError
\* when a pending row repeats a value of a unique column.
DuplicateKeyMutant(table, key, value) == FALSE

DuplicateKey(table, key, value) ==
    \E i \in 1..Len(table) : table[i][key] = value

----------------------------------------------------------------------------
(* Commit enrichment: IntelligenceEngine._analyze_commit *)

auth_file == [filename |-> "src/auth/login.py",  words |-> {"auth", "login"}, dir |-> "src/auth", test |-> FALSE]
db_file   == [filename |-> "db/migration_7.sql", words |-> {"migration"},     dir |-> "db",       test |-> FALSE]
test_file == [filename |-> "tests/test_util.py", words |-> {},                dir |-> "tests",    test |-> TRUE]

\* GitHubEnrichmentService.extract_risky_patterns, as a set of tags
ExtractRiskyPatterns(files) ==
    LET Has(f, ws) == f.words \cap ws # {}
        fs == Range(files)
    IN  (IF \E f \in fs : Has(f, {"migration", "schema"}) THEN {"db_migration"} ELSE {})
        \cup (IF \E f \in fs : Has(f, {"auth", "login", "permission"}) THEN {"auth_logic"} ELSE {})
        \cup (IF \E f \in fs : Has(f, {"config", "settings", ".env", "dockerfile"}) THEN {"config_change"} ELSE {})
        \cup (IF \E f \in fs : Has(f, {"requirements.txt", "package.json", "go.mod", "pom.xml"}) THEN {"dependency_version"} ELSE {})
        \cup (IF \E f \in fs : Has(f, {"api", "schema", ".proto"}) THEN {"api_contract"} ELSE {})

\* `fetch` is what the outside world answers during one analysis:
\*   github, local : <<>> (nothing, or an exception caught) or <<CommitStats>>
\*   llm_enabled   : settings.ENABLE_LLM_ENRICHMENT
\*   gemini_api_key: what reading settings.GEMINI_API_KEY gives: NoSuchSetting
\*                   (AttributeError: the Settings class of src/config.py
\*                   declares no such field), "" (unset) or a key
\*   diff          : GitLocalService.get_commit_diff gave a diff
\*   llm           : <<>> (enrich_commit_analysis gave None: no key, provider
\*                   error, unparsable answer) or <<[numeric, risk_score]>>,
\*                   the parsed answer; numeric = float(risk_score) succeeds
NoSuchSetting == "AttributeError"

AnalyzeCommitMutant(commit_sha, fetch) ==
    LET github_data == IF fetch.local # <<>> THEN fetch.local ELSE fetch.github
    IN  IF github_data # <<>>
        THEN LET g == github_data[1]
             IN  [sha            |-> commit_sha,
                  risk_score     |-> g.risk_score,
                  blast_radius   |-> g.blast_radius,
                  test_ratio     |-> g.test_ratio,
                  risky_patterns |-> ExtractRiskyPatterns(g.files),
                  files          |-> [i \in 1..Len(g.files) |-> g.files[i].filename]]
        ELSE [sha |-> commit_sha, risk_score |-> 0, files |-> <<>>]

AnalyzeCommit(commit_sha, fetch) ==
    LET github_data == IF fetch.github # <<>> THEN fetch.github ELSE fetch.local
    IN  IF github_data # <<>>
        THEN LET g == github_data[1]
                 result == [sha            |-> commit_sha,
                            risk_score     |-> g.risk_score,
                            blast_radius   |-> g.blast_radius,
                            test_ratio     |-> g.test_ratio,
                            risky_patterns |-> ExtractRiskyPatterns(g.files),
                            files          |-> [i \in 1..Len(g.files) |-> g.files[i].filename]]
                 \* GitLocalService is a local name of _analyze_commit, bound only
                 \* by the import of the fallback branch: with GitHub's answer the
                 \* enrichment raises UnboundLocalError, which is caught and logged
                 local_git_bound == fetch.github = <<>>
                 \* result["llm_analysis"] is assigned before float() is tried
                 enriched == [sha            |-> result.sha,
                              risk_score     |-> result.risk_score,
                              blast_radius   |-> result.blast_radius,
                              test_ratio     |-> result.test_ratio,
                              risky_patterns |-> result.risky_patterns,
                              files          |-> result.files,
                              llm_analysis   |-> [numeric    |-> fetch.llm[1].numeric,
                                                  risk_score |-> fetch.llm[1].risk_score]]
             IN  IF ~fetch.llm_enabled THEN result
                 ELSE IF fetch.gemini_api_key = NoSuchSetting
                 THEN \* line 192 is outside the try of the enrichment
                      [raised |-> "AttributeError"]
                 ELSE IF fetch.gemini_api_key = "" THEN result
                 ELSE IF local_git_bound /\ fetch.diff /\ fetch.llm # <<>>
                 THEN (IF fetch.llm[1].numeric
                       THEN [enriched EXCEPT !.risk_score =
                                                (@ + fetch.llm[1].risk_score) \div 2]
                       ELSE enriched)
                 ELSE result
        ELSE [sha |-> commit_sha, risk_score |-> 500, files |-> <<>>]

----------------------------------------------------------------------------
(* System state: IntelligenceEngine._get_system_state *)

\* _fetch_recent_logs is a stub that returns no logs, so the log branch of
\* _get_system_state is never taken and the state is the neutral default.
GetSystemState ==
    LET health_score == One
    IN  [error_rate    |-> 0,
         health_score  |-> Max(0, Min(One, health_score)),
         recent_errors |-> 0]

----------------------------------------------------------------------------
(* Memory recall: IntelligenceEngine._recall_similar_situations *)

Reverse(s) == [i \in 1..Len(s) |-> s[Len(s) + 1 - i]]

\* incidents of the last 90 days, newest first, at most 10
FindSimilarIncidents(incidentTable) ==
    LET newest == Reverse(incidentTable)
    IN  SubSeq(newest, 1, Min(Len(newest), 10))

\* incidents joined to their root-cause commit whose files meet `files`
FindFileIncidents(incidentTable, commitTable, files) ==
    IF files = <<>> THEN <<>>
    ELSE LET Overlaps(inc) ==
                 \E c \in 1..Len(commitTable) :
                     /\ inc.root_cause_commit = <<commitTable[c].sha>>
                     /\ Range(files) \cap Range(commitTable[c].files) # {}
         IN  SelectSeq(Reverse(incidentTable), Overlaps)

RecallSimilarSituationsMutant(incidentTable, commitTable, files, clock) ==
    [similar_incidents |-> FindSimilarIncidents(incidentTable),
     file_incidents    |-> FindFileIncidents(incidentTable, commitTable, files),
     incident_rate     |-> 0,
     is_off_hours      |-> clock.off_hours,
     is_weekend        |-> clock.weekend,
     total_memories    |-> Len(commitTable) + 1]

RecallSimilarSituations(incidentTable, commitTable, files, clock) ==
    [similar_incidents |-> FindSimilarIncidents(incidentTable),
     file_incidents    |-> FindFileIncidents(incidentTable, commitTable, files),
     incident_rate     |-> 0,
     is_off_hours      |-> clock.off_hours,
     is_weekend        |-> clock.weekend,
     total_memories    |-> Len(commitTable)]

----------------------------------------------------------------------------
(* Risk Scorer: IntelligenceEngine._predict_outcome and its helpers *)

CalculateConfidenceMutant(total_memories) ==
    IF total_memories <= 10 THEN 3000
    ELSE IF total_memories <= 50 THEN 6000
    ELSE IF total_memories <= 200 THEN 8000
    ELSE 9500

CalculateConfidence(total_memories) ==
    IF total_memories < 10 THEN 3000
    ELSE IF total_memories < 50 THEN 6000
    ELSE IF total_memories < 200 THEN 8000
    ELSE 9500

EstimateImpactMutant(commit) ==
    LET blast_radius == Get(commit, "blast_radius", 1)
    IN  IF blast_radius >= 10 THEN "CRITICAL"
        ELSE IF blast_radius >= 3 THEN "HIGH"
        ELSE IF blast_radius >= 2 THEN "MEDIUM"
        ELSE "LOW"

EstimateImpact(commit) ==
    LET blast_radius == Get(commit, "blast_radius", 1)
    IN  IF blast_radius >= 5 THEN "CRITICAL"
        ELSE IF blast_radius >= 3 THEN "HIGH"
        ELSE IF blast_radius >= 2 THEN "MEDIUM"
        ELSE "LOW"

PredictFailureMode(commit, memory) ==
    LET pats == Get(commit, "risky_patterns", {})
    IN  IF "auth_logic" \in pats THEN "Authentication/Authorization failure"
        ELSE IF "db_migration" \in pats THEN "Database schema issues"
        ELSE IF "api_contract" \in pats THEN "API compatibility break"
        ELSE IF "dependency_version" \in pats THEN "Dependency conflict"
        ELSE IF memory.similar_incidents # <<>>
             THEN (IF memory.similar_incidents[1].patterns # <<>>
                   THEN memory.similar_incidents[1].patterns[1]
                   ELSE "IndexError")
        ELSE None

\* 1. the rule-based probability
SystemFactorMutant(system) == Get(system, "health_score", One)

SystemFactor(system) == One - Get(system, "health_score", One)

RuleProb(commit, system, memory) ==
    LET base_risk         == Get(commit, "risk_score", 500) * 10
        system_factor     == SystemFactor(system)
        historical_factor == Len(memory.similar_incidents) * 1000
        file_risk_factor  == Min(Len(memory.file_incidents) * 3000, 6000)
        author_factor     == memory.incident_rate
        time_factor       == IF memory.is_off_hours THEN 2000 ELSE 0
    IN  Min(base_risk + system_factor + historical_factor + file_risk_factor
                + author_factor + time_factor,
            One)

\* `ml` is what the learned scorer answers: -One when there is no scorer, it
\* is not trained or its prediction fails, else a probability.
PredictOutcome(commit, system, memory, ml) ==
    LET rule_prob  == RuleProb(commit, system, memory)
        ml_prob    == ml
        final_prob == IF ml_prob >= 0
                      THEN (ml_prob * 7 + rule_prob * 3) \div 10
                      ELSE rule_prob
        base_conf  == CalculateConfidence(memory.total_memories)
        confidence == IF ml_prob >= 0 THEN Min(base_conf + 2000, 9900) ELSE base_conf
    IN  [probability     |-> final_prob,
         confidence      |-> confidence,
         expected_impact |-> EstimateImpact(commit),
         failure_mode    |-> PredictFailureMode(commit, memory)]

DecideActionMutant(prediction) ==
    LET prob == prediction.probability
    IN  IF prob > 8000 THEN "BLOCK"
        ELSE IF prob > 6000 THEN "STAGED_ROLLOUT"
        ELSE IF prob > 4000 THEN "PROCEED_WITH_CAUTION"
        ELSE "PROCEED"

DecideAction(prediction) ==
    LET prob == prediction.probability
    IN  IF prob >= 8000 THEN "BLOCK"
        ELSE IF prob >= 6000 THEN "STAGED_ROLLOUT"
        ELSE IF prob >= 4000 THEN "PROCEED_WITH_CAUTION"
        ELSE "PROCEED"

----------------------------------------------------------------------------
(* Log analysis: LogAnalyzer.analyze_logs and the engine's signature scans. *)
(* A log entry is [level, message, words]: the lower-cased level, the       *)
(* message text and the set of scanned keywords the message contains.       *)

info_log == [level |-> "info",  message |-> "request served",          words |-> {}]
auth_log == [level |-> "error", message |-> "auth token check failed", words |-> {"auth", "failed"}]
db_log   == [level |-> "error", message |-> "database timeout",        words |-> {"database", "timeout"}]
null_log == [level |-> "critical", message |-> "undefined is not a function", words |-> {"undefined"}]

Repeat(x, n) == [i \in 1..n |-> x]

IsError(log) == log.level \in {"error", "critical"}

\* round(error_count / log_count, 3), in thousandths
RoundedRate(error_count, log_count) ==
    (2000 * error_count + log_count) \div (2 * log_count)

AnalyzeLogs(logs) ==
    LET log_count   == Len(logs)
        error_logs  == SelectSeq(logs, IsError)
        error_count == Len(error_logs)
        messages    == {error_logs[i].message : i \in 1..error_count}
        Count(m)    == Cardinality({i \in 1..error_count : error_logs[i].message = m})
        repeated    == {m \in messages : Count(m) >= 3}
        \* error_rate > 0.3
        high_rate   == error_count * 10 > log_count * 3
    IN  IF log_count = 0
        THEN [error_count |-> 0, error_rate |-> 0, anomalies |-> 0]
        ELSE [error_count |-> error_count,
              error_rate  |-> RoundedRate(error_count, log_count),
              anomalies   |-> (IF high_rate THEN 1 ELSE 0) + Cardinality(repeated)]

\* the tag _detect_new_error_patterns gives one error log, or None
NewErrorPattern(log) ==
    LET Has(w) == w \in log.words
    IN  IF Has("auth") /\ Has("failed") THEN "auth_failure"
        ELSE IF Has("database") /\ (Has("timeout") \/ Has("connection")) THEN "database_connection"
        ELSE IF Has("null") \/ Has("undefined") THEN "null_reference"
        ELSE IF Has("memory") \/ Has("heap") THEN "memory_leak"
        ELSE IF Has("429") \/ Has("rate limit") THEN "rate_limit"
        ELSE IF Has("500") \/ Has("internal server") THEN "server_error"
        ELSE None

\* IntelligenceEngine._detect_new_error_patterns, as the set behind list(set(..))
DetectNewErrorPatterns(current_logs) ==
    {NewErrorPattern(current_logs[i]) :
        i \in {j \in 1..Len(current_logs) : IsError(current_logs[j])}} \ {None}

----------------------------------------------------------------------------
(* Deployment Health Monitor: status and rollback directive *)

AssessDeploymentHealthMutant(error_rate_increase, degradation_percent, new_patterns, anomalies) ==
    IF error_rate_increase > 100 \/ degradation_percent > 100000 THEN "UNHEALTHY"
    ELSE IF error_rate_increase > 200 \/ Cardinality(new_patterns) >= 3 THEN "CRITICAL"
    ELSE IF error_rate_increase > 50 \/ Cardinality(new_patterns) > 0 \/ anomalies > 0 THEN "DEGRADED"
    ELSE "HEALTHY"

AssessDeploymentHealth(error_rate_increase, degradation_percent, new_patterns, anomalies) ==
    IF error_rate_increase > 200 \/ Cardinality(new_patterns) >= 3 THEN "CRITICAL"
    ELSE IF error_rate_increase > 100 \/ degradation_percent > 100000 THEN "UNHEALTHY"
    ELSE IF error_rate_increase > 50 \/ Cardinality(new_patterns) > 0 \/ anomalies > 0 THEN "DEGRADED"
    ELSE "HEALTHY"

ShouldRollbackMutant(health_status, predicted_risk) ==
    IF health_status = "CRITICAL" THEN [recommended |-> TRUE, urgency |-> "IMMEDIATE"]
    ELSE IF health_status = "UNHEALTHY"
         THEN (IF predicted_risk > 7000
               THEN [recommended |-> TRUE, urgency |-> "HIGH"]
               ELSE [recommended |-> TRUE, urgency |-> "MEDIUM"])
    ELSE IF health_status = "DEGRADED" THEN [recommended |-> FALSE, urgency |-> "LOW"]
    ELSE [recommended |-> FALSE, urgency |-> "NONE"]

ShouldRollback(health_status, predicted_risk) ==
    IF health_status = "CRITICAL" THEN [recommended |-> TRUE, urgency |-> "IMMEDIATE"]
    ELSE IF health_status = "UNHEALTHY"
         THEN (IF predicted_risk >= 7000
               THEN [recommended |-> TRUE, urgency |-> "HIGH"]
               ELSE [recommended |-> TRUE, urgency |-> "MEDIUM"])
    ELSE IF health_status = "DEGRADED" THEN [recommended |-> FALSE, urgency |-> "LOW"]
    ELSE [recommended |-> FALSE, urgency |-> "NONE"]

\* (error_rate_increase / max(baseline_error_rate, 0.01)) * 100
DegradationPercent(error_rate_increase, baseline_error_rate) ==
    (error_rate_increase * 100000) \div Max(baseline_error_rate, 10)

----------------------------------------------------------------------------
(* Pattern Learner: IntelligenceEngine._learn_from_incident *)

ReinforceConfidenceMutant(confidence) == confidence + 500

\* min(pattern_memory.confidence + 0.05, 0.99)
ReinforceConfidence(confidence) == Min(confidence + 500, 9900)

\* one turn of the loop over incident.patterns; the query of a later turn
\* sees the row an earlier turn added (the session flushes before it selects)
LearnPattern(table, pattern, severity, now) ==
    IF \E i \in 1..Len(table) : table[i].pattern_type = pattern
    THEN [i \in 1..Len(table) |->
            IF table[i].pattern_type = pattern
            THEN [table[i] EXCEPT !.occurrence_count = @ + 1,
                                  !.confidence = ReinforceConfidence(@),
                                  !.last_seen = now]
            ELSE table[i]]
    ELSE Append(table, [pattern_type     |-> pattern,
                        occurrence_count |-> 1,
                        confidence       |-> 6000,
                        typical_impact   |-> severity,
                        first_seen       |-> now,
                        last_seen        |-> now])

RECURSIVE LearnPatterns(_, _, _, _)
LearnPatterns(table, pats, severity, now) ==
    IF pats = <<>> THEN table
    ELSE LearnPatterns(LearnPattern(table, Head(pats), severity, now),
                       Tail(pats), severity, now)

\* `deployment` is <<>> or <<index of the related deployment>>
LearnFromIncident(table, incident, deployment, now) ==
    IF deployment = <<>> THEN table
    ELSE LearnPatterns(table, incident.patterns, incident.severity, now)

----------------------------------------------------------------------------
(* The engine's operations on the store.  Each runs on its own session; a   *)
(* failed commit rolls the session back, so the tables keep their rows.     *)

\* index of the newest deployment of a commit, as <<>> or <<i>>
LatestDeploymentOf(root_cause_commit) ==
    LET hits == {i \in 1..Len(deployments) :
                    root_cause_commit = <<deployments[i].commit_sha>>}
    IN  IF hits = {} THEN <<>>
        ELSE <<CHOOSE i \in hits : \A j \in hits : j <= i>>

\* the answers of one analysis as the call saw them: of a commit source the
\* heuristic score and the blast radius of its answer
Answered(fetch) ==
    LET Stats(a) == IF a = <<>> THEN <<>>
                    ELSE <<[risk_score   |-> a[1].risk_score,
                            blast_radius |-> a[1].blast_radius]>>
    IN  [github         |-> Stats(fetch.github),
         local          |-> Stats(fetch.local),
         llm_enabled    |-> fetch.llm_enabled,
         gemini_api_key |-> fetch.gemini_api_key,
         diff           |-> fetch.diff,
         llm            |-> IF fetch.llm = <<>> THEN <<>>
                            ELSE <<[numeric    |-> fetch.llm[1].numeric,
                                    risk_score |-> fetch.llm[1].risk_score]>>]

\* IntelligenceEngine.analyze_deployment with _record_deployment
AnalyzeDeployment(commit_sha, deployment_id, fetch, ml, clock, store_ok) ==
    LET commit_data  == AnalyzeCommit(commit_sha, fetch)
        system_state == GetSystemState
        memory       == RecallSimilarSituations(incidents, commits,
                                                Get(commit_data, "files", <<>>), clock)
        prediction   == PredictOutcome(commit_data, system_state, memory, ml)
        commit_memory ==
            [sha            |-> commit_sha,
             risk_score     |-> Get(commit_data, "risk_score", 0),
             blast_radius   |-> Get(commit_data, "blast_radius", 0),
             risky_patterns |-> Get(commit_data, "risky_patterns", {}),
             files          |-> Get(commit_data, "files", <<>>)]
        deployment ==
            [deployment_id        |-> IF deployment_id # <<>> THEN deployment_id[1]
                                      ELSE DefaultDeploymentId(commit_sha),
             commit_sha           |-> commit_sha,
             predicted_risk       |-> prediction.probability,
             predicted_impact     |-> prediction.expected_impact,
             recommended_action   |-> DecideAction(prediction),
             system_state         |-> system_state,
             resulted_in_incident |-> FALSE,
             incident_id          |-> <<>>]
        integrity_error ==
            \/ DuplicateKey(commits, "sha", commit_sha)
            \/ DuplicateKey(deployments, "deployment_id", deployment.deployment_id)
        computed ==
            [risk_score    |-> Get(commit_data, "risk_score", 0),
             system_state  |-> system_state,
             prediction    |-> prediction,
             action        |-> DecideAction(prediction),
             learned_from  |-> memory.total_memories]
    IN  /\ IF "raised" \in DOMAIN commit_data
           THEN \* _analyze_commit raised: nothing was computed
                /\ UNCHANGED <<commits, deployments>>
                /\ last' = [op |-> "analyze", outcome |-> "raised",
                            error |-> commit_data.raised,
                            fetch |-> Answered(fetch)]
           ELSE IF prediction.failure_mode = "IndexError"
           THEN \* similar[0].get("patterns", ["Unknown"])[0] on an empty list
                /\ UNCHANGED <<commits, deployments>>
                /\ last' = [op |-> "analyze", outcome |-> "raised",
                            error |-> "IndexError", fetch |-> Answered(fetch),
                            ml |-> ml,
                            commit |-> commit_data, memory |-> memory,
                            result |-> computed]
           ELSE IF store_ok /\ ~integrity_error
           THEN /\ Len(commits) < MaxCommits
                /\ commits' = Append(commits, commit_memory)
                /\ deployments' = Append(deployments, deployment)
                /\ last' = [op |-> "analyze", outcome |-> "returned",
                            fetch  |-> Answered(fetch), ml |-> ml,
                            commit |-> commit_data, memory |-> memory,
                            result |-> computed]
           ELSE /\ UNCHANGED <<commits, deployments>>
                /\ last' = [op |-> "analyze", outcome |-> "raised",
                            error  |-> IF store_ok THEN "IntegrityError" ELSE "StoreError",
                            fetch  |-> Answered(fetch), ml |-> ml,
                            commit |-> commit_data, memory |-> memory,
                            result |-> computed]
        /\ UNCHANGED <<incidents, patterns>>
        /\ UNCHANGED pollerVars

\* IntelligenceEngine.record_incident
RecordIncident(incident_id, severity, root_cause_commit, pats, bound) ==
    LET deployment == IF root_cause_commit # <<>>
                      THEN LatestDeploymentOf(root_cause_commit) ELSE <<>>
        now        == Len(incidents) + 1
        incident   == [incident_id       |-> incident_id,
                       severity          |-> severity,
                       root_cause_commit |-> root_cause_commit,
                       occurred_at       |-> now,
                       patterns          |-> pats]
    IN  /\ IF DuplicateKey(incidents, "incident_id", incident_id)
           THEN /\ UNCHANGED <<incidents, deployments, patterns>>
                /\ last' = [op |-> "record_incident", outcome |-> "raised",
                            error |-> "IntegrityError", incident |-> incident]
           ELSE /\ Len(incidents) < bound
                /\ incidents' = Append(incidents, incident)
                /\ deployments' =
                       IF deployment = <<>> THEN deployments
                       ELSE [deployments EXCEPT ![deployment[1]] =
                                [@ EXCEPT !.resulted_in_incident = TRUE,
                                          !.incident_id = <<incident_id>>]]
                /\ patterns' = LearnFromIncident(patterns, incident, deployment, now)
                /\ last' = [op |-> "record_incident", outcome |-> "returned",
                            incident |-> incident, deployment |-> deployment,
                            before |-> patterns]
        /\ UNCHANGED commits
        /\ UNCHANGED pollerVars

\* the orders list(set(..)) can give a set
ListsOf(S) == {l \in [1..Cardinality(S) -> S] : Range(l) = S}

\* IntelligenceEngine.monitor_deployment_health with _mark_deployment_unhealthy;
\* `order` is the order list(set(new_patterns)) came out in
MonitorDeploymentHealth(deployment_id, current_logs, duration_minutes, order) ==
    LET hits == {i \in 1..Len(deployments) : deployments[i].deployment_id = deployment_id}
    IN  IF hits = {}
        THEN /\ order = <<>>
             /\ last' = [op |-> "monitor", outcome |-> "returned", error |-> "Deployment not found"]
             /\ UNCHANGED storeVars
             /\ UNCHANGED pollerVars
        ELSE
    LET deployment          == deployments[CHOOSE i \in hits : TRUE]
        baseline_error_rate == Get(deployment.system_state, "error_rate", 0)
        current_analysis    == AnalyzeLogs(current_logs)
        current_error_rate  == current_analysis.error_rate
        error_rate_increase == current_error_rate - baseline_error_rate
        degradation_percent == DegradationPercent(error_rate_increase, baseline_error_rate)
        new_patterns        == DetectNewErrorPatterns(current_logs)
        health_status       == AssessDeploymentHealth(error_rate_increase, degradation_percent,
                                                      new_patterns, current_analysis.anomalies)
        rollback            == ShouldRollback(health_status, deployment.predicted_risk)
        result == [deployment_id       |-> deployment_id,
                   commit_sha          |-> deployment.commit_sha,
                   error_rate_increase |-> error_rate_increase,
                   degradation_percent |-> degradation_percent,
                   new_error_patterns  |-> new_patterns,
                   anomalies           |-> current_analysis.anomalies,
                   predicted_risk      |-> deployment.predicted_risk,
                   health_status       |-> health_status,
                   rollback            |-> rollback]
        incident == [incident_id       |-> AutoIncidentId(deployment.deployment_id),
                     severity          |-> IF health_status = "DEGRADED" THEN "P2" ELSE "P1",
                     root_cause_commit |-> <<deployment.commit_sha>>,
                     occurred_at       |-> Len(incidents) + 1,
                     patterns          |-> order]
    IN  /\ order \in ListsOf(new_patterns)
        /\ IF health_status \in {"CRITICAL", "UNHEALTHY"}
           THEN IF DuplicateKey(incidents, "incident_id", incident.incident_id)
                THEN /\ UNCHANGED incidents
                     /\ last' = [op |-> "monitor", outcome |-> "raised",
                                 error |-> "IntegrityError", result |-> result]
                ELSE /\ Len(incidents) < MaxIncidents
                     /\ incidents' = Append(incidents, incident)
                     /\ last' = [op |-> "monitor", outcome |-> "returned",
                                 error |-> None, result |-> result]
           ELSE /\ UNCHANGED incidents
                /\ last' = [op |-> "monitor", outcome |-> "returned",
                            error |-> None, result |-> result]
        /\ UNCHANGED <<commits, deployments, patterns>>
        /\ UNCHANGED pollerVars

----------------------------------------------------------------------------
(* The store machine: the three operations called in any order *)

NoCall == [op |-> "none", outcome |-> "none"]

Init ==
    /\ commits = <<>>
    /\ deployments = <<>>
    /\ incidents = <<>>
    /\ patterns = <<>>
    /\ last = NoCall
    /\ running = FALSE
    /\ startPc = "idle"
    /\ workerPc = [w \in {"commits", "logs"} |-> "none"]
    /\ stopCalled = FALSE
    /\ ticks = [w \in {"commits", "logs"} |-> 0]
    /\ cancelReq = {}
    /\ log_backend = "none"
    /\ remote = <<>>
    /\ last_commit_sha = <<>>
    /\ fetched = <<>>
    /\ cursor = 0
    /\ submitted = <<>>
    /\ sessions = [s \in {1, 2} |-> [pc |-> "idle", tag |-> "None", seen |-> <<>>]]

\* The content of a commit is fixed by its sha.
CommitOf(commit_sha) ==
    IF commit_sha[2] = "1"
    THEN [risk_score |-> 900, blast_radius |-> 6, test_ratio |-> 1000,
          files |-> <<auth_file, db_file>>]
    ELSE [risk_score |-> 100, blast_radius |-> 1, test_ratio |-> 5000, files |-> <<test_file>>]

\* what the commit source, its fallback and the LLM answer in one analysis
GithubAnswers(commit_sha) ==
    [github |-> <<CommitOf(commit_sha)>>, local |-> <<>>,
     llm_enabled |-> FALSE, gemini_api_key |-> NoSuchSetting,
     diff |-> FALSE, llm |-> <<>>]

WorkHours == [off_hours |-> FALSE, weekend |-> FALSE]
OffHours  == [off_hours |-> TRUE,  weekend |-> FALSE]

StoreShas == {<<"aaaaaaaa", "1">>, <<"aaaaaaaa", "2">>}

DeploymentIds == {<<"id", "d1">>}

IncidentIds == {<<"user", "i1", "">>, <<"user", "i2", "">>}

HealthyLogs   == <<info_log>>
DegradedLogs  == Repeat(info_log, 99) \o <<auth_log>>
UnhealthyLogs == Repeat(info_log, 7) \o <<auth_log>>
CriticalLogs  == Repeat(info_log, 97) \o <<auth_log, db_log, null_log>>

Analyze ==
    \E commit_sha \in StoreShas, deployment_id \in {<<>>} \cup {<<d>> : d \in DeploymentIds},
       store_ok \in BOOLEAN :
        AnalyzeDeployment(commit_sha, deployment_id, GithubAnswers(commit_sha),
                          -One, WorkHours, store_ok)

Record ==
    \E incident_id \in IncidentIds, root \in {<<>>, <<<<"aaaaaaaa", "1">>>>} :
        RecordIncident(incident_id, "P2", root, <<"auth_failure">>, MaxIncidents)

Monitor ==
    \E deployment_id \in DeploymentIds \cup {DefaultDeploymentId(c) : c \in StoreShas},
       logs \in {HealthyLogs, DegradedLogs, UnhealthyLogs, CriticalLogs},
       order \in {<<>>, <<"auth_failure">>,
                  <<"auth_failure", "database_connection", "null_reference">>,
                  <<"null_reference", "database_connection", "auth_failure">>} :
        MonitorDeploymentHealth(deployment_id, logs, 30, order)

Next == Analyze \/ Record \/ Monitor

Spec == Init /\ [][Next]_vars

----------------------------------------------------------------------------
(* Properties of the store machine (Spec)  *)

\* C1: after any sequence of calls the store holds at most one CommitRecord
\* per sha and at most one DeploymentRecord per deployment_id: a second
\* analysis of a recorded sha never adds a second row.
C1_UniqueNaturalKeys ==
    /\ \A i, j \in 1..Len(commits) :
          commits[i].sha = commits[j].sha => i = j
    /\ \A i, j \in 1..Len(deployments) :
          deployments[i].deployment_id = deployments[j].deployment_id => i = j

\* a second analysis of a recorded sha was rejected and the store holds two
\* commits
C1_Witness ==
    /\ last.op = "analyze"
    /\ last.outcome = "raised"
    /\ last.error = "IntegrityError"
    /\ Len(commits) = 2

\* C2: when persisting the commit and deployment records fails (store error
\* or uniqueness rejection), analyzeDeployment still returns its result: the
\* write failure is never raised to the caller.
C2_WriteFailureNeverRaised ==
    ~ /\ last.op = "analyze"
      /\ last.outcome = "raised"
      /\ last.error \in {"IntegrityError", "StoreError"}

\* C4: after every recordIncident call that completes, each tag of the
\* incident has a PatternRecord that the call created (confidence 0.6,
\* occurrence_count 1, typical_impact the severity) or reinforced (count +1,
\* confidence +0.05 capped at 0.99, last_seen updated), with or without a
\* root-cause commit and a deployment on record.
C4_EveryIncidentIsLearned ==
    (last.op = "record_incident" /\ last.outcome = "returned") =>
        \A tag \in Range(last.incident.patterns) :
            \E j \in 1..Len(patterns) :
                /\ patterns[j].pattern_type = tag
                /\ IF \E b \in 1..Len(last.before) : last.before[b].pattern_type = tag
                   THEN LET old == last.before[CHOOSE b \in 1..Len(last.before) :
                                                  last.before[b].pattern_type = tag]
                        IN  /\ patterns[j].occurrence_count = old.occurrence_count + 1
                            /\ patterns[j].confidence = Min(old.confidence + 500, 9900)
                            /\ patterns[j].last_seen = last.incident.occurred_at
                   ELSE /\ patterns[j].occurrence_count = 1
                        /\ patterns[j].confidence = 6000
                        /\ patterns[j].typical_impact = last.incident.severity

\* C5: when a monitoring tick classifies a deployment CRITICAL or UNHEALTHY,
\* every new error-pattern tag of the tick has a PatternRecord by the end of
\* the tick (the auto-incident was fed to the Pattern Learner).
C5_AutoIncidentIsLearned ==
    ( /\ last.op = "monitor"
      /\ last.outcome = "returned"
      /\ last.error = None
      /\ last.result.health_status \in {"CRITICAL", "UNHEALTHY"} ) =>
        \A tag \in last.result.new_error_patterns :
            \E j \in 1..Len(patterns) : patterns[j].pattern_type = tag

----------------------------------------------------------------------------
(* The Pattern Learner followed over many incidents (SpecLearn): one        *)
(* deployment is analysed, then incidents are recorded against it.          *)

LearnSha == <<"aaaaaaaa", "1">>

LearnIncidentId(n) == <<"user", ToString(n), "">>

LearnAnalyze ==
    AnalyzeDeployment(LearnSha, <<>>, GithubAnswers(LearnSha), -One, WorkHours, TRUE)

LearnRecord ==
    \E given \in { [root |-> <<LearnSha>>, pats |-> <<"auth_failure">>],
                   [root |-> <<LearnSha>>, pats |-> <<"auth_failure", "auth_failure">>],
                   [root |-> <<LearnSha>>, pats |-> <<"timeout", "auth_failure">>] } :
        RecordIncident(LearnIncidentId(Len(incidents) + 1), "P1",
                       given.root, given.pats, MaxLearn)

NextLearn == LearnAnalyze \/ LearnRecord

SpecLearn == Init /\ [][NextLearn]_vars

\* C3: across any sequence of recorded incidents a PatternRecord's confidence
\* never decreases and never exceeds 0.99; it is 0.6 at creation, rises by
\* 0.05 (capped at 0.99) with each reinforcement, and after 10 reinforcements
\* from 0.6 it is 0.99.  Rows are never removed.
C3_ConfidenceGrowsToCap ==
    [][ /\ Len(patterns') >= Len(patterns)
        /\ \A j \in 1..Len(patterns') :
              LET new == patterns'[j]
                  reinforcements ==
                      IF j <= Len(patterns)
                      THEN new.occurrence_count - patterns[j].occurrence_count
                      ELSE new.occurrence_count - 1
                  start == IF j <= Len(patterns) THEN patterns[j].confidence ELSE 6000
              IN  /\ j <= Len(patterns) => new.pattern_type = patterns[j].pattern_type
                  /\ reinforcements >= 0
                  /\ new.confidence >= start
                  /\ new.confidence <= 9900
                  /\ new.confidence = Min(start + 500 * reinforcements, 9900)
                  /\ new.occurrence_count >= 11 => new.confidence = 9900
      ]_vars

\* a pattern that was reinforced at least 10 times stands at 0.99
C3_Witness ==
    \E j \in 1..Len(patterns) :
        /\ patterns[j].occurrence_count >= 11
        /\ patterns[j].confidence = 9900

----------------------------------------------------------------------------
(* The background poller under the application's lifespan (SpecPoller).     *)
(* The event loop runs one task at a time, so every step below runs from    *)
(* one await to the next; a cancel request is delivered to a task as a      *)
(* CancelledError raised at the await it is suspended on.                   *)

Workers == {"commits", "logs"}

Live == {"ready", "tick", "sleep"}

\* lifespan: poller_task = asyncio.create_task(app.state.auto_poller.start())
CreatePollerTask ==
    /\ startPc = "idle"
    /\ startPc' = "created"
    /\ UNCHANGED <<storeVars, feedVars, raceVars, last, running, workerPc, stopCalled, ticks,
                   cancelReq, log_backend>>

\* start() begins to run and suspends in detect(), on Loki's health check
Start ==
    /\ startPc = "created"
    /\ "start" \notin cancelReq
    /\ startPc' = "loki_health"
    /\ UNCHANGED <<storeVars, feedVars, raceVars, last, running, workerPc, stopCalled, ticks,
                   cancelReq, log_backend>>

\* detect() has returned: start() sets running, creates the worker tasks
\* (the log monitor only with a log backend) and suspends in gather
DetectReturn ==
    /\ running' = TRUE
    /\ workerPc' = [w \in Workers |->
                      IF w = "commits" \/ log_backend # "none" THEN "ready" ELSE "none"]
    /\ startPc' = "gather"
    /\ UNCHANGED <<storeVars, feedVars, raceVars, last, stopCalled, ticks, cancelReq, log_backend>>

\* detect(): Loki answered its health check
LokiHealthCheck ==
    /\ startPc = "loki_health"
    /\ "start" \notin cancelReq
    /\ \E ok \in BOOLEAN :
         IF ok THEN /\ log_backend' = "loki"
                    /\ startPc' = "prom_health"
               ELSE /\ log_backend' = log_backend
                    /\ startPc' = "loki_close"
    /\ UNCHANGED <<storeVars, feedVars, raceVars, last, running, workerPc, stopCalled, ticks, cancelReq>>

\* detect(): Loki's client is closed, the file backend is tried, and
\* Prometheus' health check is awaited
LokiClose ==
    /\ startPc = "loki_close"
    /\ "start" \notin cancelReq
    /\ \E file_ok \in BOOLEAN :
         log_backend' = IF file_ok THEN "file" ELSE "none"
    /\ startPc' = "prom_health"
    /\ UNCHANGED <<storeVars, feedVars, raceVars, last, running, workerPc, stopCalled, ticks, cancelReq>>

\* detect(): Prometheus answered its health check
PrometheusHealthCheck ==
    /\ startPc = "prom_health"
    /\ "start" \notin cancelReq
    /\ \E ok \in BOOLEAN :
         IF ok THEN DetectReturn
               ELSE /\ startPc' = "prom_close"
                    /\ UNCHANGED <<storeVars, feedVars, raceVars, last, running, workerPc, stopCalled,
                                   ticks, cancelReq, log_backend>>

\* detect(): Prometheus' client is closed
PrometheusClose ==
    /\ startPc = "prom_close"
    /\ "start" \notin cancelReq
    /\ DetectReturn

\* lifespan shutdown: await auto_poller.stop(); poller_task.cancel().
\* stop() never suspends, so no task runs between the two.
Shutdown ==
    /\ startPc # "idle"
    /\ ~stopCalled
    /\ stopCalled' = TRUE
    /\ running' = FALSE
    /\ cancelReq' = IF startPc \in {"done", "cancelled"}
                    THEN cancelReq ELSE cancelReq \cup {"start"}
    /\ UNCHANGED <<storeVars, feedVars, raceVars, last, startPc, workerPc, ticks, log_backend>>

\* The CancelledError reaches start().  Before its first step the task just
\* ends; in a health check the bare "except:" catches it and the check
\* answers False; in a close() it propagates; in gather it is passed on to
\* the worker tasks.
CancelStart ==
    /\ "start" \in cancelReq
    /\ startPc \in {"created", "loki_health", "loki_close", "prom_health",
                    "prom_close", "gather"}
    /\ startPc' = CASE startPc = "loki_health" -> "loki_close"
                    [] startPc = "prom_health" -> "prom_close"
                    [] startPc = "gather"      -> "cancelling"
                    [] OTHER                   -> "cancelled"
    /\ cancelReq' = (cancelReq \ {"start"}) \cup
                    IF startPc = "gather"
                    THEN {w \in Workers : workerPc[w] \in Live} ELSE {}
    /\ UNCHANGED <<storeVars, feedVars, raceVars, last, running, workerPc, stopCalled, ticks, log_backend>>

\* the cancelled gather ends once every worker task has ended
GatherCancelled ==
    /\ startPc = "cancelling"
    /\ \A w \in Workers : workerPc[w] \notin Live
    /\ startPc' = "cancelled"
    /\ UNCHANGED <<storeVars, feedVars, raceVars, last, running, workerPc, stopCalled, ticks,
                   cancelReq, log_backend>>

\* "while self.running:" of a worker loop, at its start or after its sleep:
\* the next tick begins, or the loop ends
WhileRunning(w) ==
    /\ workerPc[w] \in {"ready", "sleep"}
    /\ w \notin cancelReq
    /\ IF running
       THEN /\ ticks[w] < MaxTicks
            /\ workerPc' = [workerPc EXCEPT ![w] = "tick"]
            /\ ticks' = [ticks EXCEPT ![w] = @ + 1]
       ELSE /\ workerPc' = [workerPc EXCEPT ![w] = "done"]
            /\ ticks' = ticks
    /\ UNCHANGED <<storeVars, feedVars, raceVars, last, running, startPc, stopCalled, cancelReq, log_backend>>

\* the body of a tick is over (its errors are logged) and the worker sleeps
Sleep(w) ==
    /\ workerPc[w] = "tick"
    /\ w \notin cancelReq
    /\ workerPc' = [workerPc EXCEPT ![w] = "sleep"]
    /\ UNCHANGED <<storeVars, feedVars, raceVars, last, running, startPc, stopCalled, ticks,
                   cancelReq, log_backend>>

\* the CancelledError reaches a worker at its await and ends it
CancelWorker(w) ==
    /\ w \in cancelReq
    /\ workerPc' = [workerPc EXCEPT ![w] = "cancelled"]
    /\ cancelReq' = cancelReq \ {w}
    /\ UNCHANGED <<storeVars, feedVars, raceVars, last, running, startPc, stopCalled, ticks, log_backend>>

PollGithubCommits == WhileRunning("commits") \/ Sleep("commits") \/ CancelWorker("commits")

MonitorLogs == WhileRunning("logs") \/ Sleep("logs") \/ CancelWorker("logs")

NextPoller ==
    \/ CreatePollerTask \/ Start \/ LokiHealthCheck \/ LokiClose
    \/ PrometheusHealthCheck \/ PrometheusClose
    \/ Shutdown \/ CancelStart \/ GatherCancelled
    \/ PollGithubCommits \/ MonitorLogs

SpecPoller == Init /\ [][NextPoller]_vars

\* C6: once AutoPoller.stop() has been called, no worker begins a new tick.
C6_NoTickAfterStop ==
    [][stopCalled => \A w \in Workers : ticks'[w] = ticks[w]]_vars

----------------------------------------------------------------------------
(* The Deployment Health Monitor's two decisions applied to drawn inputs    *)
(* (SpecHealth).                                                            *)

ErrorRateIncreases == {0, 50, 51, 100, 101, 120, 200, 201, 250}

DegradationPercents == {0, 50000, 100000, 100001}

PatternTags == {"auth_failure", "database_connection", "null_reference"}

PredictedRisks == {3000, 6999, 7000}

Assess ==
    /\ \E error_rate_increase \in ErrorRateIncreases,
          degradation_percent \in DegradationPercents,
          new_patterns \in SUBSET PatternTags,
          anomalies \in 0..1,
          predicted_risk \in PredictedRisks :
         LET health_status == AssessDeploymentHealth(error_rate_increase,
                                  degradation_percent, new_patterns, anomalies)
         IN  last' = [op                  |-> "assess",
                      error_rate_increase |-> error_rate_increase,
                      degradation_percent |-> degradation_percent,
                      new_patterns        |-> new_patterns,
                      anomalies           |-> anomalies,
                      predicted_risk      |-> predicted_risk,
                      health_status       |-> health_status,
                      rollback            |-> ShouldRollback(health_status, predicted_risk)]
    /\ UNCHANGED storeVars
    /\ UNCHANGED pollerVars

NextHealth == Assess

SpecHealth == Init /\ [][NextHealth]_vars

\* C7: the health status is decided from the tick's inputs in this
\* precedence: CRITICAL if the error-rate increase is above 0.2 or there are
\* at least 3 new pattern tags; else UNHEALTHY if the increase is above 0.1
\* or the degradation above 100%; else DEGRADED if the increase is above 0.05
\* or there is any new pattern or anomaly; else HEALTHY.  The five examples:
\* (0.25, {auth_failure}) and (0.0, three tags) are CRITICAL, (0.12, 50%) is
\* UNHEALTHY, (0.0, one anomaly) is DEGRADED, (0.0, nothing) is HEALTHY.
C7_HealthStatusPrecedence ==
    last.op = "assess" =>
        LET inc  == last.error_rate_increase
            deg  == last.degradation_percent
            tags == Cardinality(last.new_patterns)
            st   == last.health_status
        IN  /\ st = "CRITICAL" <=> (inc > 200 \/ tags >= 3)
            /\ st = "UNHEALTHY" <=>
                  (~(inc > 200 \/ tags >= 3) /\ (inc > 100 \/ deg > 100000))
            /\ st = "DEGRADED" <=>
                  (/\ ~(inc > 200 \/ tags >= 3)
                   /\ ~(inc > 100 \/ deg > 100000)
                   /\ (inc > 50 \/ tags > 0 \/ last.anomalies > 0))
            /\ st = "HEALTHY" <=>
                  (inc <= 50 /\ tags = 0 /\ last.anomalies = 0 /\ deg <= 100000)
            /\ (inc = 250 /\ last.new_patterns = {"auth_failure"}) => st = "CRITICAL"
            /\ (inc = 0 /\ tags = 3) => st = "CRITICAL"
            /\ (inc = 120 /\ deg = 50000 /\ tags < 3) => st = "UNHEALTHY"
            /\ (inc = 0 /\ deg = 0 /\ tags = 0 /\ last.anomalies = 1) => st = "DEGRADED"
            /\ (inc = 0 /\ deg = 0 /\ tags = 0 /\ last.anomalies = 0) => st = "HEALTHY"

\* an increase of 0.25 with one new tag and a degradation above 100% was
\* assessed (both the CRITICAL and the UNHEALTHY test are met)
C7_Witness ==
    /\ last.op = "assess"
    /\ last.error_rate_increase = 250
    /\ last.degradation_percent = 100001
    /\ last.new_patterns = {"auth_failure"}
    /\ last.health_status = "CRITICAL"

\* C8: the rollback directive is (true, IMMEDIATE) for CRITICAL, (true, HIGH)
\* for UNHEALTHY with a stored predicted_risk of at least 0.7, (true, MEDIUM)
\* for UNHEALTHY below 0.7, (false, LOW) for DEGRADED and (false, NONE) for
\* HEALTHY; rollback is recommended exactly for CRITICAL and UNHEALTHY.
C8_RollbackTable ==
    last.op = "assess" =>
        LET st == last.health_status
            r  == last.rollback
        IN  /\ st = "CRITICAL" => r = [recommended |-> TRUE, urgency |-> "IMMEDIATE"]
            /\ (st = "UNHEALTHY" /\ last.predicted_risk >= 7000)
                  => r = [recommended |-> TRUE, urgency |-> "HIGH"]
            /\ (st = "UNHEALTHY" /\ last.predicted_risk < 7000)
                  => r = [recommended |-> TRUE, urgency |-> "MEDIUM"]
            /\ st = "DEGRADED" => r = [recommended |-> FALSE, urgency |-> "LOW"]
            /\ st = "HEALTHY" => r = [recommended |-> FALSE, urgency |-> "NONE"]
            /\ r.recommended <=> st \in {"CRITICAL", "UNHEALTHY"}

\* an UNHEALTHY deployment whose stored risk is exactly 0.7 got urgency HIGH
C8_Witness ==
    /\ last.op = "assess"
    /\ last.health_status = "UNHEALTHY"
    /\ last.predicted_risk = 7000
    /\ last.rollback = [recommended |-> TRUE, urgency |-> "HIGH"]

----------------------------------------------------------------------------
(* The Risk Scorer applied to drawn contexts (SpecScore).                   *)

RiskScores == {0, 1000}

HealthScores == {0, 5000, One}

IncidentCounts == 0..3

IncidentRates == {0, 5000}

MlAnswers == {-One, 5000, One}

PastIncident == [patterns |-> <<"timeout">>]

\* the context _predict_outcome is given, built from the drawn inputs
ScoreProbability(c) ==
    PredictOutcome([risk_score |-> c.risk_score],
                   [health_score |-> c.health_score],
                   [similar_incidents |-> Repeat(PastIncident, c.similar),
                    file_incidents    |-> Repeat(PastIncident, c.file),
                    incident_rate     |-> c.incident_rate,
                    is_off_hours      |-> c.off_hours,
                    is_weekend        |-> FALSE,
                    total_memories    |-> 0],
                   c.ml).probability

Score ==
    /\ \E risk_score \in RiskScores, health_score \in HealthScores,
          similar \in IncidentCounts, file \in IncidentCounts,
          incident_rate \in IncidentRates, off_hours \in BOOLEAN, ml \in MlAnswers :
         LET c == [risk_score |-> risk_score, health_score |-> health_score,
                   similar |-> similar, file |-> file,
                   incident_rate |-> incident_rate, off_hours |-> off_hours,
                   ml |-> ml]
         IN  last' = [op |-> "score", context |-> c, probability |-> ScoreProbability(c)]
    /\ UNCHANGED storeVars
    /\ UNCHANGED pollerVars

NextScore == Score

SpecScore == Init /\ [][NextScore]_vars

\* C10: with every other input held fixed (the learned probability
\* included), a larger system factor (a lower health score), historical
\* factor (more similar incidents), file-risk factor (more file-overlap
\* incidents), author factor (a higher incident rate) or time factor
\* (off-hours) never gives a smaller fused probability.
C10_FactorsNeverDecreaseProbability ==
    last.op = "score" =>
        LET c == last.context
            p == last.probability
        IN  /\ \A h \in HealthScores :
                  h < c.health_score => ScoreProbability([c EXCEPT !.health_score = h]) >= p
            /\ \A n \in IncidentCounts :
                  n > c.similar => ScoreProbability([c EXCEPT !.similar = n]) >= p
            /\ \A n \in IncidentCounts :
                  n > c.file => ScoreProbability([c EXCEPT !.file = n]) >= p
            /\ \A r \in IncidentRates :
                  r > c.incident_rate
                      => ScoreProbability([c EXCEPT !.incident_rate = r]) >= p
            /\ ~c.off_hours => ScoreProbability([c EXCEPT !.off_hours = TRUE]) >= p

\* a context scored with a learned probability for which a lower health
\* score gives a strictly larger fused probability
C10_Witness ==
    /\ last.op = "score"
    /\ last.context.ml >= 0
    /\ \E h \in HealthScores :
          /\ h < last.context.health_score
          /\ ScoreProbability([last.context EXCEPT !.health_score = h]) > last.probability

----------------------------------------------------------------------------
(* analyzeDeployment over every commit source, LLM answer, learned-scorer   *)
(* answer and clock (SpecAnalyze).                                          *)

\* GitHub gives nothing, the local repository has the commit, and the LLM
\* is enabled and answers `llm`
LocalAnswers(commit_sha, llm) ==
    [github |-> <<>>, local |-> <<CommitOf(commit_sha)>>,
     llm_enabled |-> TRUE, gemini_api_key |-> "key", diff |-> TRUE, llm |-> llm]

\* neither source has the commit
NoAnswers ==
    [github |-> <<>>, local |-> <<>>,
     llm_enabled |-> FALSE, gemini_api_key |-> NoSuchSetting,
     diff |-> FALSE, llm |-> <<>>]

\* GitHub has the commit and the local repository would answer differently
BothAnswers(commit_sha) ==
    [GithubAnswers(commit_sha) EXCEPT
        !.local = <<[risk_score |-> 500, blast_radius |-> 3, test_ratio |-> 0,
                     files |-> <<db_file>>]>>]

\* ENABLE_LLM_ENRICHMENT is set, with the Settings class of src/config.py
EnabledAnswers(commit_sha) ==
    [GithubAnswers(commit_sha) EXCEPT !.llm_enabled = TRUE]

\* the local repository has the commit and no diff of it
NoDiffAnswers(commit_sha) ==
    [LocalAnswers(commit_sha, <<>>) EXCEPT !.diff = FALSE]

\* parsed answers of the provider: two numeric ones outside 1..10, and one
\* whose risk_score float() rejects
LlmAnswers == {<<[numeric |-> TRUE, risk_score |-> -500]>>,
               <<[numeric |-> TRUE, risk_score |-> 2500]>>,
               <<[numeric |-> FALSE, risk_score |-> 0]>>}

AnalyzeAny ==
    \E commit_sha \in StoreShas :
      \E fetch \in {GithubAnswers(commit_sha), NoAnswers, BothAnswers(commit_sha),
                    EnabledAnswers(commit_sha), NoDiffAnswers(commit_sha)}
                   \cup {LocalAnswers(commit_sha, llm) : llm \in LlmAnswers \cup {<<>>}},
         ml \in {-One, One},
         clock \in {WorkHours, OffHours} :
        AnalyzeDeployment(commit_sha, <<>>, fetch, ml, clock, TRUE)

RecordAny ==
    RecordIncident(<<"user", "i1", "">>, "P2", <<<<"aaaaaaaa", "1">>>>,
                   <<"auth_failure">>, MaxIncidents)

NextAnalyze == AnalyzeAny \/ RecordAny

SpecAnalyze == Init /\ [][NextAnalyze]_vars

----------------------------------------------------------------------------
(* The learned scorer and the prediction made with it (SpecPredict).        *)
(* A scorer is [present, is_trained, answer]: whether the engine has one,   *)
(* whether it is trained, and what predict_proba gives: <<>> when it (or    *)
(* prepare_features) raises, else <<probability of an incident>>.           *)

PredictRiskMutant(scorer) ==
    IF scorer.answer = <<>> THEN 0 ELSE scorer.answer[1]

\* MLPredictor.predict_risk
PredictRisk(scorer) ==
    IF ~scorer.is_trained THEN -One
    ELSE IF scorer.answer = <<>> THEN -One
    ELSE scorer.answer[1]

\* _predict_outcome, step 2: ml_prob
MlProb(scorer) ==
    IF scorer.present /\ scorer.is_trained THEN PredictRisk(scorer) ELSE -One

Scorers ==
    {[present |-> p, is_trained |-> t, answer |-> a] :
        p \in BOOLEAN, t \in BOOLEAN, a \in {<<>>, <<0>>, <<5000>>, <<One>>}}

PredictRiskScores == {0, 399, 400, 599, 600, 799, 800, 1000}

MemoryCounts == {0, 9, 10, 49, 50, 199, 200, 500}

PredictMemory(total_memories) ==
    [similar_incidents |-> <<>>, file_incidents |-> <<>>, incident_rate |-> 0,
     is_off_hours |-> FALSE, is_weekend |-> FALSE, total_memories |-> total_memories]

Predict ==
    /\ \E scorer \in Scorers, risk_score \in PredictRiskScores,
          total_memories \in MemoryCounts :
         LET commit     == [risk_score |-> risk_score]
             memory     == PredictMemory(total_memories)
             prediction == PredictOutcome(commit, GetSystemState, memory, MlProb(scorer))
         IN  last' = [op             |-> "predict",
                      scorer         |-> scorer,
                      total_memories |-> total_memories,
                      rule_prob      |-> RuleProb(commit, GetSystemState, memory),
                      prediction     |-> prediction,
                      action         |-> DecideAction(prediction)]
    /\ UNCHANGED storeVars
    /\ UNCHANGED pollerVars

NextPredict == Predict

SpecPredict == Init /\ [][NextPredict]_vars

\* C11: the learned score contributes exactly when a scorer is present, is
\* trained and its prediction succeeds; then probability = 0.7*mlProb +
\* 0.3*ruleProb and confidence = min(bucket + 0.2, 0.99); in every other case
\* probability = ruleProb and confidence is the unboosted bucket value.
C11_LearnedScoreFusion ==
    last.op = "predict" =>
        LET s      == last.scorer
            bucket == IF last.total_memories < 10 THEN 3000
                      ELSE IF last.total_memories < 50 THEN 6000
                      ELSE IF last.total_memories < 200 THEN 8000 ELSE 9500
        IN  IF s.present /\ s.is_trained /\ s.answer # <<>>
            THEN /\ 10 * last.prediction.probability
                        = 7 * s.answer[1] + 3 * last.rule_prob
                 /\ last.prediction.confidence = Min(bucket + 2000, 9900)
            ELSE /\ last.prediction.probability = last.rule_prob
                 /\ last.prediction.confidence = bucket

\* a trained scorer whose prediction failed: the rule probability stands alone
C11_Witness ==
    /\ last.op = "predict"
    /\ last.scorer = [present |-> TRUE, is_trained |-> TRUE, answer |-> <<>>]
    /\ last.rule_prob = 8000
    /\ last.prediction.probability = 8000
    /\ last.prediction.confidence = 3000

\* C12: the base confidence is a step function of the total memory count n:
\* 0.3 for n < 10, 0.6 for 10 <= n < 50, 0.8 for 50 <= n < 200, 0.95 for
\* n >= 200; for n = 0, 9, 10, 49, 50, 199, 200, 500 it is 0.3, 0.3, 0.6,
\* 0.6, 0.8, 0.8, 0.95, 0.95.
C12_ConfidenceBuckets ==
    last.op = "predict" =>
        LET n    == last.total_memories
            base == CalculateConfidence(n)
            examples == (0 :> 3000) @@ (9 :> 3000) @@ (10 :> 6000) @@ (49 :> 6000)
                        @@ (50 :> 8000) @@ (199 :> 8000) @@ (200 :> 9500) @@ (500 :> 9500)
        IN  /\ n < 10 => base = 3000
            /\ (10 <= n /\ n < 50) => base = 6000
            /\ (50 <= n /\ n < 200) => base = 8000
            /\ n >= 200 => base = 9500
            /\ n \in DOMAIN examples => base = examples[n]
            /\ MlProb(last.scorer) < 0 => last.prediction.confidence = base

\* a prediction made without a scorer from exactly 10 memories: 0.6
C12_Witness ==
    /\ last.op = "predict"
    /\ ~last.scorer.present
    /\ last.total_memories = 10
    /\ last.prediction.confidence = 6000

----------------------------------------------------------------------------
(* Root-cause attribution: IntelligenceEngine.detect_incident_cause.        *)

\* _get_commits_before: the commits of the 24 hours up to the incident, most
\* recent first; `window` is how many of the recorded commits those are
GetCommitsBefore(commitTable, window) ==
    LET recent == Reverse(commitTable)
    IN  [i \in 1..Min(window, Len(recent)) |->
            [sha        |-> recent[i].sha,
             risk_score |-> recent[i].risk_score,
             patterns   |-> recent[i].risky_patterns]]

\* _analyze_logs_around: the tag of one log message (every level is scanned)
LogPatternAround(log) ==
    IF log.words \cap {"auth", "permission"} # {} THEN {"auth_failure"}
    ELSE IF log.words \cap {"timeout", "connection"} # {} THEN {"connection_issue"}
    ELSE IF log.words \cap {"database", "sql"} # {} THEN {"database_error"}
    ELSE IF log.words \cap {"memory", "oom"} # {} THEN {"memory_issue"}
    ELSE IF log.words \cap {"500", "internal server"} # {} THEN {"server_error"}
    ELSE {}

\* _analyze_logs_around
AnalyzeLogsAround(error_logs) ==
    IF error_logs # <<>>
    THEN LET analysis == AnalyzeLogs(error_logs)
         IN  [error_count |-> analysis.error_count,
              error_rate  |-> analysis.error_rate,
              patterns    |-> UNION {LogPatternAround(error_logs[i]) : i \in 1..Len(error_logs)},
              anomalies   |-> analysis.anomalies]
    ELSE [error_count |-> 0, error_rate |-> 0, patterns |-> {}, anomalies |-> 0]

RECURSIVE ByOverlapDescending(_, _, _)
\* sorted(similar, key=pattern_overlap, reverse=True): a stable sort
ByOverlapDescending(similar, log_pattern_set, overlap) ==
    IF overlap = 0 THEN <<>>
    ELSE LET Has(x) == Cardinality(Range(x.patterns) \cap log_pattern_set) = overlap
         IN  SelectSeq(similar, Has)
                 \o ByOverlapDescending(similar, log_pattern_set, overlap - 1)

\* _find_similar_incident_patterns
FindSimilarIncidentPatterns(incidentTable, log_patterns) ==
    IF log_patterns.patterns = {} THEN <<>>
    ELSE LET recent   == Reverse(incidentTable)
             incs     == SubSeq(recent, 1, Min(20, Len(recent)))
             sorted   == ByOverlapDescending(incs, log_patterns.patterns,
                                             Cardinality(log_patterns.patterns))
         IN  SubSeq(sorted, 1, Min(5, Len(sorted)))

\* _predict_root_cause: the score of one candidate
CauseScore(commit, log_pattern_set, similar_incidents) ==
    Cardinality(commit.patterns \cap log_pattern_set) * 4000
        + commit.risk_score * 3
        + (IF \E k \in 1..Len(similar_incidents) :
                 similar_incidents[k].root_cause_commit = <<commit.sha>>
           THEN 3000 ELSE 0)

\* max(scored_commits, key=score): the first of the highest scoring
FirstMaxMutant(scores) ==
    CHOOSE i \in 1..Len(scores) :
        /\ \A j \in 1..Len(scores) : scores[j] <= scores[i]
        /\ \A j \in (i + 1)..Len(scores) : scores[j] < scores[i]

FirstMax(scores) ==
    CHOOSE i \in 1..Len(scores) :
        /\ \A j \in 1..Len(scores) : scores[j] <= scores[i]
        /\ \A j \in 1..(i - 1) : scores[j] < scores[i]

\* _predict_root_cause: <<>> is None
PredictRootCause(recent_commits, log_patterns, similar_incidents) ==
    IF recent_commits = <<>> THEN <<>>
    ELSE LET scores == [i \in 1..Len(recent_commits) |->
                          CauseScore(recent_commits[i], log_patterns.patterns,
                                     similar_incidents)]
             best   == FirstMax(scores)
         IN  <<[sha              |-> recent_commits[best].sha,
                risk_score       |-> recent_commits[best].risk_score,
                matched_patterns |-> recent_commits[best].patterns
                                         \cap log_patterns.patterns,
                confidence       |-> Min(scores[best], 9500)]>>

\* IntelligenceEngine.detect_incident_cause
DetectIncidentCause(window, error_logs) ==
    LET recent_commits    == GetCommitsBefore(commits, window)
        log_patterns      == AnalyzeLogsAround(error_logs)
        similar_incidents == FindSimilarIncidentPatterns(incidents, log_patterns)
        root_cause        == PredictRootCause(recent_commits, log_patterns,
                                              similar_incidents)
    IN  /\ last' = [op                |-> "detect",
                    outcome           |-> "returned",
                    likely_root_cause |-> root_cause,
                    recent_commits    |-> recent_commits,
                    log_evidence      |-> log_patterns,
                    similar_past_incidents |-> similar_incidents,
                    confidence        |-> IF root_cause # <<>>
                                          THEN root_cause[1].confidence ELSE 0]
        /\ UNCHANGED storeVars
        /\ UNCHANGED pollerVars

----------------------------------------------------------------------------
(* Attribution over a store filled by analyses and incidents (SpecCause).   *)

AnalyzeCause ==
    \E commit_sha \in StoreShas :
      \E fetch \in {GithubAnswers(commit_sha), NoAnswers},
         deployment_id \in {<<>>} \cup {<<d>> : d \in DeploymentIds} :
        AnalyzeDeployment(commit_sha, deployment_id, fetch, -One, WorkHours, TRUE)

RecordCause ==
    \E incident_id \in IncidentIds, commit_sha \in StoreShas :
        RecordIncident(incident_id, "P2", <<commit_sha>>, <<"auth_failure">>,
                       MaxIncidents)

DetectCause ==
    \E window \in 0..MaxCommits, error_logs \in {<<>>, <<auth_log>>, <<db_log, info_log>>} :
        DetectIncidentCause(window, error_logs)

NextCause == AnalyzeCause \/ RecordCause \/ DetectCause

SpecCause == Init /\ [][NextCause]_vars

\* C13: detectIncidentCause returns the candidate commit with the highest
\* score 0.4*|commit patterns /\ log patterns| + 0.3*(risk_score/10) +
\* 0.3*(1 if a similar past incident names it as root cause, else 0); of
\* several candidates with the highest score, the one that comes first in
\* the most-recent-first candidate list is returned.
C13_RootCauseIsFirstArgmax ==
    last.op = "detect" =>
        LET cands == last.recent_commits
            Named(c) == \E k \in 1..Len(last.similar_past_incidents) :
                           last.similar_past_incidents[k].root_cause_commit = <<c.sha>>
            Points(c) == 4000 * Cardinality(c.patterns \cap last.log_evidence.patterns)
                            + 3 * c.risk_score
                            + (IF Named(c) THEN 3000 ELSE 0)
        IN  IF cands = <<>> THEN last.likely_root_cause = <<>>
            ELSE /\ last.likely_root_cause # <<>>
                 /\ \E i \in 1..Len(cands) :
                       /\ last.likely_root_cause[1].sha = cands[i].sha
                       /\ \A j \in 1..Len(cands) : Points(cands[j]) <= Points(cands[i])
                       /\ \A j \in 1..(i - 1) : Points(cands[j]) < Points(cands[i])
                       /\ last.confidence = Min(Points(cands[i]), 9500)

\* two candidates with the same score: the more recent one was returned
C13_Witness ==
    /\ last.op = "detect"
    /\ Len(last.recent_commits) = 2
    /\ last.recent_commits[1].risk_score = last.recent_commits[2].risk_score
    /\ last.similar_past_incidents = <<>>
    /\ last.likely_root_cause # <<>>
    /\ last.likely_root_cause[1].sha = last.recent_commits[1].sha
    /\ last.recent_commits[1].sha = commits[Len(commits)].sha

----------------------------------------------------------------------------
(* Further properties of analyzeDeployment (SpecAnalyze) *)

\* C14: the action is decided from the fused probability p alone: BLOCK if
\* p >= 0.8, STAGED_ROLLOUT if 0.6 <= p < 0.8, PROCEED_WITH_CAUTION if
\* 0.4 <= p < 0.6, PROCEED if p < 0.4; the action returned to the caller and
\* the recommended_action stored with the deployment are the same value.
C14_ActionFromProbability ==
    LET ActionOf(q) == IF q >= 8000 THEN "BLOCK"
                       ELSE IF q >= 6000 THEN "STAGED_ROLLOUT"
                       ELSE IF q >= 4000 THEN "PROCEED_WITH_CAUTION"
                       ELSE "PROCEED"
    IN  /\ \A i \in 1..Len(deployments) :
              deployments[i].recommended_action = ActionOf(deployments[i].predicted_risk)
        /\ (last.op = "analyze" /\ "result" \in DOMAIN last) =>
              last.result.action = ActionOf(last.result.prediction.probability)
        /\ (last.op = "analyze" /\ last.outcome = "returned") =>
              /\ deployments # <<>>
              /\ deployments[Len(deployments)].recommended_action = last.result.action

\* an analysis returned with probability exactly 0.8: BLOCK, returned and stored
C14_Witness ==
    /\ last.op = "analyze"
    /\ last.outcome = "returned"
    /\ last.result.prediction.probability = 8000
    /\ last.result.action = "BLOCK"
    /\ deployments[Len(deployments)].recommended_action = "BLOCK"

----------------------------------------------------------------------------
(* Recommendations: IntelligenceEngine._generate_recommendations, and the   *)
(* advice analyze_deployment derives from a materialized context            *)
(* (SpecAdvise).  A line is [category, text, count, files].                 *)

Line(category, text) == [category |-> category, text |-> text, count |-> 0, files |-> {}]

\* the files named by the file incidents
FilesInvolved(file_incidents) ==
    UNION {file_incidents[i].involved_files : i \in 1..Len(file_incidents)}

GenerateRecommendationsMutant(commit, system, memory, prediction) ==
    (IF memory.is_off_hours
     THEN <<Line("temporal", "Off-hours deploy - ensure on-call coverage")>>
     ELSE <<>>)
    \o (IF Get(commit, "test_ratio", One) < 2000
        THEN <<Line("test_coverage", "Low test coverage - add integration tests")>>
        ELSE <<>>)

GenerateRecommendations(commit, system, memory, prediction) ==
    LET prob == prediction.probability
        pats == Get(commit, "risky_patterns", {})
    IN  (IF prob >= 8000
         THEN <<Line("risk_tier", "BLOCK DEPLOYMENT - High incident probability")>>
         ELSE IF prob >= 6000
         THEN <<Line("risk_tier", "Use staged/canary rollout")>>
         ELSE IF prob >= 4000
         THEN <<Line("risk_tier", "Deploy with enhanced monitoring")>>
         ELSE <<>>)
        \o (IF "auth_logic" \in pats
            THEN <<Line("pattern", "Enable verbose auth logging before deploy")>>
            ELSE <<>>)
        \o (IF "db_migration" \in pats
            THEN <<Line("pattern", "Test migration on staging with production data volume")>>
            ELSE <<>>)
        \o (IF Get(commit, "test_ratio", One) < 2000
            THEN <<Line("test_coverage", "Low test coverage - add integration tests")>>
            ELSE <<>>)
        \o (IF memory.is_off_hours
            THEN <<Line("temporal", "Off-hours deploy - ensure on-call coverage")>>
            ELSE <<>>)
        \o (IF memory.is_weekend
            THEN <<Line("temporal", "Weekend deploy - consider waiting for Monday")>>
            ELSE <<>>)
        \o (IF Get(system, "error_rate", 0) > 50
            THEN <<Line("system_state", "System already has elevated errors - stabilize first")>>
            ELSE <<>>)
        \o (IF memory.similar_incidents # <<>>
            THEN <<[category |-> "historical",
                    text     |-> "similar incidents in past 90 days - review history",
                    count    |-> Len(memory.similar_incidents),
                    files    |-> {}]>>
            ELSE <<>>)
        \o (IF memory.file_incidents # <<>>
            THEN <<[category |-> "file_specific",
                    text     |-> "HIGH RISK: Files have caused recent incidents",
                    count    |-> Len(memory.file_incidents),
                    files    |-> FilesInvolved(memory.file_incidents)]>>
            ELSE <<>>)

AdviseRiskScores == {100, 300, 500, 900}

AdviseTestRatios == {1000, 2000}

FileIncident == [patterns |-> <<"auth_failure">>, involved_files |-> {"src/auth/login.py"}]

\* analyze_deployment, steps 3 and 4 and the action, on a drawn context
Advise ==
    /\ \E risk_score \in AdviseRiskScores,
          risky_patterns \in SUBSET {"auth_logic", "db_migration"},
          test_ratio \in AdviseTestRatios,
          is_off_hours \in BOOLEAN, is_weekend \in BOOLEAN,
          error_rate \in {0, 60},
          similar \in {0, 2}, file \in {0, 1} :
         LET commit == [risk_score |-> risk_score, blast_radius |-> 6,
                        test_ratio |-> test_ratio, risky_patterns |-> risky_patterns]
             system == [error_rate |-> error_rate, health_score |-> One,
                        recent_errors |-> 0]
             memory == [similar_incidents |-> Repeat(PastIncident, similar),
                        file_incidents    |-> Repeat(FileIncident, file),
                        incident_rate     |-> 0,
                        is_off_hours      |-> is_off_hours,
                        is_weekend        |-> is_weekend,
                        total_memories    |-> 0]
             prediction == PredictOutcome(commit, system, memory, -One)
         IN  last' = [op              |-> "advise",
                      commit          |-> commit,
                      system_state    |-> system,
                      memory          |-> memory,
                      prediction      |-> prediction,
                      recommendations |-> GenerateRecommendations(commit, system,
                                                                  memory, prediction),
                      action          |-> DecideAction(prediction)]
    /\ UNCHANGED storeVars
    /\ UNCHANGED pollerVars

NextAdvise == Advise

SpecAdvise == Init /\ [][NextAdvise]_vars

\* C15: the recommendation list comes in the fixed category order: the
\* risk-tier line (at most one), then pattern-specific lines, the
\* test-coverage line, temporal lines, the system-state line, the historical
\* line, the file-specific line; a line of a later category never precedes a
\* line of an earlier category.
C15_RecommendationOrder ==
    last.op = "advise" =>
        LET recs == last.recommendations
            rank == [risk_tier |-> 1, pattern |-> 2, test_coverage |-> 3, temporal |-> 4,
                     system_state |-> 5, historical |-> 6, file_specific |-> 7]
        IN  /\ \A i \in 1..Len(recs) : recs[i].category \in DOMAIN rank
            /\ \A i, j \in 1..Len(recs) :
                  i < j => rank[recs[i].category] <= rank[recs[j].category]
            /\ Cardinality({i \in 1..Len(recs) : recs[i].category = "risk_tier"}) <= 1

\* a list holding a line of each of the seven categories
C15_Witness ==
    /\ last.op = "advise"
    /\ {last.recommendations[i].category : i \in 1..Len(last.recommendations)}
          = {"risk_tier", "pattern", "test_coverage", "temporal", "system_state",
             "historical", "file_specific"}
    /\ Len(last.recommendations) = 9

\* the scenario: risk_score 9, blast_radius 6, patterns [auth_logic],
\* test_ratio 0.1, 2 similar incidents, 1 file-overlap incident, off-hours on
\* a weekday, a healthy system (no learned scorer is asked in SpecAdvise)
ScenarioAdvised ==
    /\ last.op = "advise"
    /\ last.commit = [risk_score |-> 900, blast_radius |-> 6, test_ratio |-> 1000,
                      risky_patterns |-> {"auth_logic"}]
    /\ Len(last.memory.similar_incidents) = 2
    /\ Len(last.memory.file_incidents) = 1
    /\ last.memory.is_off_hours
    /\ ~last.memory.is_weekend
    /\ last.system_state = [error_rate |-> 0, health_score |-> One, recent_errors |-> 0]

----------------------------------------------------------------------------
(* The commit sources of analyzeDeployment (SpecAnalyze) *)

----------------------------------------------------------------------------
(* Attribution of incidents to deployments (Spec) *)

\* C18: a DeploymentRecord is mutated at most once: once an incident has been
\* attributed to it (resulted_in_incident true, incident_id set), no later
\* step changes its incident_id, and resulted_in_incident never returns to
\* false.
C18_AttributionIsFinal ==
    [][\A i \in 1..Len(deployments) :
          deployments[i].resulted_in_incident =>
              /\ deployments'[i].resulted_in_incident
              /\ deployments'[i].incident_id = deployments[i].incident_id]_vars

----------------------------------------------------------------------------
(* The commit risk score and the LLM enrichment (SpecAnalyze) *)

C20_EnrichmentFailureIsIgnored ==
    LET f      == last.fetch
        data   == IF f.github # <<>> THEN f.github ELSE f.local
        failed == \/ f.gemini_api_key = NoSuchSetting
                  \/ f.github # <<>>
                  \/ ~f.diff
                  \/ f.llm = <<>>
                  \/ ~f.llm[1].numeric
    IN  (last.op = "analyze" /\ f.llm_enabled /\ f.gemini_api_key # ""
            /\ data # <<>> /\ failed) =>
            /\ "commit" \in DOMAIN last
            /\ last.commit.risk_score = data[1].risk_score
            /\ "llm_analysis" \notin DOMAIN last.commit
            /\ last.outcome = "raised" => last.error = "IntegrityError"

----------------------------------------------------------------------------
(* Degraded paths and the confidence reported (SpecAnalyze) *)

\* C21: when analyzeDeployment runs on a degraded path (no commit source
\* answered, so the neutral default is scored), the confidence it returns is
\* lower than the confidence of the non-degraded path with the same memory
\* volume and the same answer of the learned scorer.
C21_DegradedPathLowersConfidence ==
    (/\ last.op = "analyze"
     /\ "result" \in DOMAIN last
     /\ last.fetch.github = <<>>
     /\ last.fetch.local = <<>>) =>
        LET sha    == last.commit.sha
            commit == AnalyzeCommit(sha, GithubAnswers(sha))
            normal == PredictOutcome(commit, GetSystemState, last.memory, last.ml)
        IN  last.result.prediction.confidence < normal.confidence

----------------------------------------------------------------------------
(* The monitoring tick and its auto-incident (Spec) *)

\* C22: a monitorDeploymentHealth tick stores an auto-incident (id
\* auto-<deployment_id>, root cause the deployment's commit, patterns the
\* tick's new error patterns, severity P1) exactly when the status it
\* computed is CRITICAL or UNHEALTHY; a HEALTHY or DEGRADED tick stores no
\* incident, so no auto-incident has severity P2.
C22_AutoIncidentOnUnhealthyTick ==
    [][(last'.op = "monitor" /\ "result" \in DOMAIN last') =>
          LET r == last'.result
          IN  /\ (incidents' # incidents) <=>
                     (r.health_status \in {"CRITICAL", "UNHEALTHY"})
              /\ (incidents' # incidents) =>
                     /\ Len(incidents') = Len(incidents) + 1
                     /\ SubSeq(incidents', 1, Len(incidents)) = incidents
                     /\ LET inc == incidents'[Len(incidents')]
                        IN  /\ inc.incident_id = AutoIncidentId(r.deployment_id)
                            /\ inc.severity = "P1"
                            /\ inc.root_cause_commit = <<r.commit_sha>>
                            /\ Range(inc.patterns) = r.new_error_patterns
      ]_vars

\* C26: monitorDeploymentHealth can be invoked on the same deployment on any
\* number of successive ticks: every invocation returns its health report,
\* also after an earlier tick classified the deployment CRITICAL or UNHEALTHY
\* and stored its auto-incident.
C26_EveryTickReports ==
    last.op = "monitor" =>
        /\ last.outcome = "returned"
        /\ "result" \in DOMAIN last =>
              /\ last.result.health_status \in {"HEALTHY", "DEGRADED", "UNHEALTHY", "CRITICAL"}
              /\ "recommended" \in DOMAIN last.result.rollback

----------------------------------------------------------------------------
(* Ticks of the background workers (SpecPoller) *)

\* C23: when shutdown is requested while a tick is in progress, the tick's
\* work runs to completion: a worker that is in a tick leaves it only by
\* finishing it (and going to sleep), never by being aborted part-way.
C23_TickRunsToCompletion ==
    [][\A w \in Workers :
          workerPc[w] = "tick" => workerPc'[w] \in {"tick", "sleep"}]_vars

\* C24: a tick's work does not block the scheduling of the next tick: while
\* the work of a poller's tick is still in flight (and the poller runs), the
\* next tick of that poller can be issued.
C24_NextTickWhileWorkInFlight ==
    \A w \in Workers :
        (/\ workerPc[w] = "tick"
         /\ running
         /\ w \notin cancelReq
         /\ ticks[w] < MaxTicks) =>
            ENABLED (NextPoller /\ ticks'[w] = ticks[w] + 1)

----------------------------------------------------------------------------
(* The two signature scans over the same logs (SpecLogs) *)

MaxLogs == 3

perm_log == [level |-> "error", message |-> "permission denied", words |-> {"permission"}]
mem_log  == [level |-> "error", message |-> "heap out of memory", words |-> {"memory", "heap"}]

LogKinds == {info_log, auth_log, db_log, null_log, perm_log, mem_log}

\* both scans applied to one list of logs: _detect_new_error_patterns as
\* monitor_deployment_health calls it, _analyze_logs_around as
\* detect_incident_cause calls it
ScanLogs ==
    \E n \in 0..MaxLogs :
      \E logs \in [1..n -> LogKinds] :
        /\ last' = [op       |-> "scan",
                    outcome  |-> "returned",
                    levels   |-> [i \in 1..n |-> logs[i].level],
                    messages |-> [i \in 1..n |-> logs[i].message],
                    detected |-> DetectNewErrorPatterns(logs),
                    around   |-> AnalyzeLogsAround(logs).patterns]
        /\ UNCHANGED <<storeVars, pollerVars>>

NextLogs == ScanLogs

SpecLogs == Init /\ [][NextLogs]_vars

\* C25: for every list of error logs, the set of pattern tags the root-cause
\* attributor extracts (_analyze_logs_around) equals the set the health
\* monitor's new-error-pattern scan (_detect_new_error_patterns) extracts
\* from the same logs.
C25_SameSignatureScan ==
    (/\ last.op = "scan"
     /\ \A i \in 1..Len(last.levels) : last.levels[i] \in {"error", "critical"}) =>
        last.around = last.detected

----------------------------------------------------------------------------
(* The commit poller against a growing repository (SpecFeed).  The steps    *)
(* are those of one iteration of the loop of _poll_github_commits while     *)
(* self.running holds; each await is a step.  _analyze_commit catches every *)
(* Exception of analyze_deployment, so the loop's control flow depends on   *)
(* the fetched list and last_commit_sha only; the call is recorded in       *)
(* `submitted`.                                                             *)

MaxRemote == 11

\* _fetch_recent_commits(limit=10)
FetchLimit == 10

\* the sha of the k-th commit pushed to the repository
PushedSha(k) == <<"commit", k>>

\* a newer commit is added at the head of the remote list
PushCommit ==
    /\ Len(remote) < MaxRemote
    /\ remote' = <<PushedSha(Len(remote) + 1)>> \o remote
    /\ UNCHANGED <<last_commit_sha, fetched, cursor, submitted>>
    /\ UNCHANGED <<storeVars, last, running, startPc, workerPc, stopCalled, ticks,
                   cancelReq, log_backend, raceVars>>

\* commits = await self._fetch_recent_commits(limit=10): the newest `limit`
\* shas, or [] when the request fails
FetchRecentCommits(ok) ==
    /\ cursor = 0
    /\ fetched' = IF ok THEN SubSeq(remote, 1, Min(FetchLimit, Len(remote))) ELSE <<>>
    /\ cursor' = 1
    /\ UNCHANGED <<remote, last_commit_sha, submitted>>
    /\ UNCHANGED <<storeVars, last, running, startPc, workerPc, stopCalled, ticks,
                   cancelReq, log_backend, raceVars>>

\* the for loop reached last_commit_sha or the end of the list
LoopEnds ==
    IF cursor > Len(fetched) THEN TRUE
    ELSE <<fetched[cursor]>> = last_commit_sha

\* one pass of the for loop: await self._analyze_commit(commit_sha)
SubmitCommit ==
    /\ cursor >= 1
    /\ ~LoopEnds
    /\ submitted' = Append(submitted, fetched[cursor])
    /\ cursor' = cursor + 1
    /\ UNCHANGED <<remote, last_commit_sha, fetched>>
    /\ UNCHANGED <<storeVars, last, running, startPc, workerPc, stopCalled, ticks,
                   cancelReq, log_backend, raceVars>>

EndTickMutant ==
    /\ cursor >= 1
    /\ LoopEnds
    /\ last_commit_sha' = IF fetched # <<>> THEN <<fetched[1]>> ELSE <<>>
    /\ fetched' = <<>>
    /\ cursor' = 0
    /\ UNCHANGED <<remote, submitted>>
    /\ UNCHANGED <<storeVars, last, running, startPc, workerPc, stopCalled, ticks,
                   cancelReq, log_backend, raceVars>>

\* if commits: self.last_commit_sha = commits[0]; then the sleep
EndTick ==
    /\ cursor >= 1
    /\ LoopEnds
    /\ last_commit_sha' = IF fetched # <<>> THEN <<fetched[1]>> ELSE last_commit_sha
    /\ fetched' = <<>>
    /\ cursor' = 0
    /\ UNCHANGED <<remote, submitted>>
    /\ UNCHANGED <<storeVars, last, running, startPc, workerPc, stopCalled, ticks,
                   cancelReq, log_backend, raceVars>>

PollTick == (\E ok \in BOOLEAN : FetchRecentCommits(ok)) \/ SubmitCommit \/ EndTick

NextFeed == PushCommit \/ PollTick

SpecFeed == Init /\ [][NextFeed]_vars

\* ticks keep firing and fetches eventually succeed
SpecFeedFair ==
    /\ SpecFeed
    /\ SF_vars(FetchRecentCommits(TRUE))
    /\ WF_vars(SubmitCommit)
    /\ WF_vars(EndTick)

\* C27: within one run of the poller, while the remote list only grows at
\* its head, no sha is given to the analysis more than once, and a tick
\* whose fetch fails or returns nothing leaves last_commit_sha unchanged.
C27_NoCommitSubmittedTwice ==
    [][/\ \A i, j \in 1..Len(submitted') :
            i # j => submitted'[i] # submitted'[j]
       /\ (cursor >= 1 /\ cursor' = 0 /\ fetched = <<>>) =>
            last_commit_sha' = last_commit_sha
      ]_vars

\* two ticks have submitted commits (the second stopped at last_commit_sha)
\* and a later tick's fetch has just failed
C27_Witness ==
    /\ \E i \in 1..(Len(submitted) - 1) : submitted[i][2] < submitted[i + 1][2]
    /\ last_commit_sha # <<>>
    /\ cursor = 1
    /\ fetched = <<>>

\* C28: every commit added to the remote while the poller runs is eventually
\* submitted for analysis by some tick, however many commits arrive between
\* two ticks.
C28_EveryCommitEventuallySubmitted ==
    \A k \in 1..MaxRemote :
        (\E i \in 1..Len(remote) : remote[i] = PushedSha(k))
            ~> (\E i \in 1..Len(submitted) : submitted[i] = PushedSha(k))

----------------------------------------------------------------------------
(* Concurrent record_incident calls (SpecRace).  Each request has its own   *)
(* AsyncSession (routes.py 64-97); a call is suspended at each await, and   *)
(* the other call's statements run in between.  A step is what one call     *)
(* does up to its next commit or query.                                     *)

RaceSessions == {1, 2}

RaceTags == {"auth_failure", "database_connection"}

RaceSha == <<"aaaaaaaa", "1">>

RaceIncidentId(s) == <<"user", IF s = 1 THEN "i1" ELSE "i2", "">>

\* the deployment the incidents are attributed to
RaceAnalyze ==
    AnalyzeDeployment(RaceSha, <<>>, GithubAnswers(RaceSha), -One, WorkHours, TRUE)

\* record_incident up to its commit: the incident row and the deployment's
\* outcome; without a deployment _learn_from_incident returns at once
BeginRecord(s, tag) ==
    LET deployment == LatestDeploymentOf(<<RaceSha>>)
        now        == Len(incidents) + 1
        incident   == [incident_id       |-> RaceIncidentId(s),
                       severity          |-> "P2",
                       root_cause_commit |-> <<RaceSha>>,
                       occurred_at       |-> now,
                       patterns          |-> <<tag>>]
    IN  /\ sessions[s].pc = "idle"
        /\ incidents' = Append(incidents, incident)
        /\ deployments' =
               IF deployment = <<>> THEN deployments
               ELSE [deployments EXCEPT ![deployment[1]] =
                        [@ EXCEPT !.resulted_in_incident = TRUE,
                                  !.incident_id = <<RaceIncidentId(s)>>]]
        /\ sessions' = [sessions EXCEPT ![s] =
               [pc   |-> IF deployment = <<>> THEN "unlearned" ELSE "select",
                tag  |-> tag,
                seen |-> <<>>]]
        /\ last' = [op |-> "record_incident",
                    outcome |-> IF deployment = <<>> THEN "returned" ELSE "learning",
                    session |-> s]
        /\ UNCHANGED <<commits, patterns>>
        /\ UNCHANGED <<running, startPc, workerPc, stopCalled, ticks, cancelReq,
                       log_backend, feedVars>>

\* select(PatternMemory).where(pattern_type == pattern): the row as this
\* session sees it now
SelectPattern(s) ==
    LET hits == {i \in 1..Len(patterns) : patterns[i].pattern_type = sessions[s].tag}
    IN  /\ sessions[s].pc = "select"
        /\ sessions' = [sessions EXCEPT ![s] =
               [pc   |-> "commit",
                tag  |-> sessions[s].tag,
                seen |-> IF hits = {} THEN <<>>
                         ELSE LET row == patterns[CHOOSE i \in hits : TRUE]
                              IN  <<[occurrence_count |-> row.occurrence_count,
                                     confidence       |-> row.confidence]>>]]
        /\ UNCHANGED <<storeVars, last>>
        /\ UNCHANGED <<running, startPc, workerPc, stopCalled, ticks, cancelReq,
                       log_backend, feedVars>>

\* the commit of _learn_from_incident: INSERT of the new row (pattern_type is
\* unique) or UPDATE of the row with the values computed from what was read
CommitPattern(s) ==
    LET tag  == sessions[s].tag
        seen == sessions[s].seen
        now  == Len(incidents)
        integrity_error == seen = <<>> /\ DuplicateKey(patterns, "pattern_type", tag)
    IN  /\ sessions[s].pc = "commit"
        /\ patterns' =
               IF integrity_error THEN patterns
               ELSE IF seen = <<>>
               THEN Append(patterns, [pattern_type     |-> tag,
                                      occurrence_count |-> 1,
                                      confidence       |-> 6000,
                                      typical_impact   |-> "P2",
                                      first_seen       |-> now,
                                      last_seen        |-> now])
               ELSE [i \in 1..Len(patterns) |->
                        IF patterns[i].pattern_type = tag
                        THEN [patterns[i] EXCEPT
                                 !.occurrence_count = seen[1].occurrence_count + 1,
                                 !.confidence = ReinforceConfidence(seen[1].confidence),
                                 !.last_seen = now]
                        ELSE patterns[i]]
        /\ sessions' = [sessions EXCEPT ![s] =
               [pc   |-> IF integrity_error THEN "failed" ELSE "done",
                tag  |-> tag,
                seen |-> <<>>]]
        /\ last' = IF integrity_error
                   THEN [op |-> "record_incident", outcome |-> "raised",
                         error |-> "IntegrityError", session |-> s]
                   ELSE [op |-> "record_incident", outcome |-> "returned", session |-> s]
        /\ UNCHANGED <<commits, deployments, incidents>>
        /\ UNCHANGED <<running, startPc, workerPc, stopCalled, ticks, cancelReq,
                       log_backend, feedVars>>

RecordConcurrently ==
    \E s \in RaceSessions :
        \/ \E tag \in RaceTags : BeginRecord(s, tag)
        \/ SelectPattern(s)
        \/ CommitPattern(s)

NextRace == RaceAnalyze \/ RecordConcurrently

SpecRace == Init /\ [][NextRace]_vars

\* C29: when two recordIncident calls with the same pattern tag run
\* concurrently, each on its own session, neither fails and both
\* reinforcements are counted: once both have ended, the tag has exactly one
\* PatternRecord, whose occurrence_count is the number of learned incidents
\* that carry the tag.
C29_ConcurrentReinforcementsCounted ==
    (\A s \in RaceSessions : sessions[s].pc \in {"idle", "unlearned", "done", "failed"}) =>
        /\ \A s \in RaceSessions : sessions[s].pc # "failed"
        /\ \A tag \in RaceTags :
              LET learned == {s \in RaceSessions :
                                 sessions[s].pc = "done" /\ sessions[s].tag = tag}
                  rows    == {i \in 1..Len(patterns) : patterns[i].pattern_type = tag}
              IN  learned # {} =>
                     /\ Cardinality(rows) = 1
                     /\ \A i \in rows :
                           patterns[i].occurrence_count = Cardinality(learned)

----------------------------------------------------------------------------
(* What analyze_deployment stores against what it returns (Spec) *)

\* C30: after a successful analyzeDeployment the stored deployment row agrees
\* with the returned result: predicted_risk is the returned incident
\* probability, predicted_impact the returned expected impact, system_state
\* the returned system state; and the memory count behind the confidence was
\* read before this analysis wrote its own rows.
C30_StoredRecordAgreesWithResult ==
    (last.op = "analyze" /\ last.outcome = "returned") =>
        LET stored == deployments[Len(deployments)]
            result == last.result
        IN  /\ stored.commit_sha = commits[Len(commits)].sha
            /\ stored.predicted_risk = result.prediction.probability
            /\ stored.predicted_impact = result.prediction.expected_impact
            /\ stored.recommended_action = result.action
            /\ stored.system_state = result.system_state
            /\ last.memory.total_memories = Len(commits) - 1
            /\ result.learned_from = Len(commits) - 1
            /\ result.prediction.confidence =
                   LET base_conf == CalculateConfidence(Len(commits) - 1)
                   IN  IF last.ml >= 0 THEN Min(base_conf + 2000, 9900) ELSE base_conf

\* a second analysis has returned, with one earlier commit in memory
C30_Witness ==
    /\ last.op = "analyze"
    /\ last.outcome = "returned"
    /\ Len(commits) = 2
    /\ last.result.learned_from = 1
    /\ deployments[Len(deployments)].predicted_risk = last.result.prediction.probability
    /\ last.result.prediction.probability > 0

====
